---- MODULE Spec2Model ----
(***************************************************************************)
(* Model of dicom_app_final.py, a Streamlit script.  Streamlit re-executes *)
(* the script top to bottom on every interaction; st.session_state is the  *)
(* only state that survives a run.  One action of the model is one run of  *)
(* the script with one choice of the sidebar menu and of the widgets the   *)
(* selected branch reads.                                                  *)
(*                                                                         *)
(* Numbers.  Pixel intensities are integers.  The sliders deliver decimal  *)
(* fractions with step 0.01, kept here as integer hundredths; the          *)
(* structure multipliers 0.6 and 1.2 are kept as tenths.  All comparisons  *)
(* are done exactly, by cross-multiplication (float32 rounding is not      *)
(* modelled).                                                              *)
(*                                                                         *)
(* Arrays.  A 2-D plane is kept as its row-major sequence of pixels: every *)
(* array operation the script applies (mean, *, +, clip, >) is elementwise *)
(* or a reduction over all elements, so the row/column layout is not       *)
(* observable.  An image is [ndim, planes]: ndim = 2 with one plane, or    *)
(* ndim = 3 with shape[0] = Len(planes) planes.                            *)
(***************************************************************************)
EXTENDS Integers, Sequences, FiniteSets

\* ----------------------------------------------------------------- bounds
\* pixels per plane
SliceSize == 2
\* largest shape[0] of an uploaded 3-D pixel array
MaxDepth == 2


\* ------------------------------------------------------- widget ranges
\* st.sidebar.slider("Brillo", -100, 100, 0)
BrightnessMin == -100
BrightnessMax == 100
\* st.sidebar.slider("Contraste", 0.5, 3.0, 1.0), in hundredths
ContrastMin == 50
ContrastMax == 300
\* st.sidebar.slider("Umbral:", 0.0, 2.0, 1.0, 0.01), in hundredths
FactorMin == 0
FactorMax == 200
\* np.clip(adjusted, 0, 255)
ClipLow == 0
ClipHigh == 255
\* np.stack([segmented]*5, axis=0)
ExportLayers == 5

\* slider positions the model tries
Brightnesses == {BrightnessMin, BrightnessMax}
Contrasts == {ContrastMin, ContrastMax}
Factors == {FactorMin, 100, FactorMax}
Estructuras == {"Hueso", "Tejido blando", "Tumor"}

\* ------------------------------------------------------------ the state
VARIABLES
    on_streamlit_cloud, \* os.environ.get("STREAMLIT_SERVER") == "1"
    dicom_data,         \* st.session_state.dicom_data
    image,              \* st.session_state.image
    segmented,          \* st.session_state.segmented
    slice_index,        \* st.session_state.slice_index
    menu,               \* the branch the last run took
    message,            \* what the last run told the user
    controls,           \* the "Brillo" and "Contraste" sliders as the last run read them
    slice_img,          \* the grid the last run handed to imshow (hundredths)
    marching,           \* the last run called measure.marching_cubes
    stl,                \* the last run saved a mesh file
    last_seg            \* history: the inputs of the run that stored `segmented`

session == <<dicom_data, image, segmented, slice_index>>
vars == <<on_streamlit_cloud, dicom_data, image, segmented, slice_index,
          menu, message, controls, slice_img, marching, stl, last_seg>>

\* Python's None, one value per slot so that TLC compares like with like
NoImage == [ndim |-> 0, planes |-> <<>>]
NoMask == <<>>
NoFigure == <<>>
\* the sliders' defaults (lines 77-78)
NoControls == [brightness |-> 0, contrast |-> 100]
NoSeg == [image |-> NoImage, index |-> 0, estructura |-> "", factor |-> 0]

\* ------------------------------------------------------------- arrays
\* the planes of the files the model uploads: the first n pixels are
\* background (0), the others tissue (200), for every n
Planes == {[k \in 1..SliceSize |-> IF k <= n THEN 0 ELSE 200] : n \in 0..SliceSize}
\* pixel_array of a single-frame file (2-D) or of a multi-frame file (3-D)
Volumes ==
    [ndim : {2}, planes : [1..1 -> Planes]]
    \cup UNION {[ndim : {3}, planes : [1..d -> Planes]] : d \in 1..MaxDepth}

RECURSIVE SumSeq(_)
SumSeq(s) == IF s = <<>> THEN 0 ELSE Head(s) + SumSeq(Tail(s))

RECURSIVE SumPlanes(_)
SumPlanes(ps) == IF ps = <<>> THEN 0 ELSE SumSeq(Head(ps)) + SumPlanes(Tail(ps))

\* img.shape[0] of a 3-D array
Depth(img) == Len(img.planes)
\* img.size
Size(img) == Len(img.planes) * SliceSize

\* np.mean(img) as the fraction num/den
MeanNum(img) == SumPlanes(img.planes)
MeanDen(img) == Size(img)

\* ------------------------------------------------- Subir DICOM (61-70)
\* st.session_state after lines 66-69 of a run whose dcmread and pixel_array
\* succeeded with pixel array `vol`
upload_keeps_index(vol) ==
    [dicom_data |-> "dataset", image |-> vol,
     segmented |-> NoMask, slice_index |-> slice_index]
upload_keeps_mask(vol) ==
    [dicom_data |-> "dataset", image |-> vol,
     segmented |-> segmented, slice_index |-> 0]
upload(vol) ==
    [dicom_data |-> "dataset", image |-> vol,
     segmented |-> NoMask, slice_index |-> 0]

\* ------------------------------------------- Visualizar imagen (73-95)
\* np.clip(x, lo, hi) = minimum(maximum(x, lo), hi)
clip_upper_only(x, lo, hi) == IF x > hi THEN hi ELSE x
clip(x, lo, hi) ==
    LET m == IF x < lo THEN lo ELSE x
    IN  IF m > hi THEN hi ELSE m

\* lines 81-82 on one pixel, in hundredths: v * contrast + brightness, clipped
adjust(v, contrast, brightness) ==
    clip(v * contrast + brightness * 100, ClipLow * 100, ClipHigh * 100)

\* lines 80-82 on the whole array
adjusted_of(img, contrast, brightness) ==
    [p \in 1..Len(img.planes) |->
        [k \in 1..SliceSize |-> adjust(img.planes[p][k], contrast, brightness)]]

\* st.session_state.image after lines 80-82: img.copy() and the two
\* rebinding assignments leave the stored array untouched
image_after_adjust_in_place(img, contrast, brightness) ==
    [ndim |-> img.ndim,
     planes |-> [p \in 1..Len(img.planes) |->
        [k \in 1..SliceSize |->
            adjust(img.planes[p][k], contrast, brightness) \div 100]]]
image_after_adjust(img, contrast, brightness) == img

\* line 84
has_slices(img) == img.ndim = 3 /\ Depth(img) > 1

\* ------------------------------------------- Segmentar imagen (98-121)
\* lines 105-110: the threshold as the fraction threshold_num / threshold_den
threshold_den(img) == MeanDen(img) * 1000
threshold_num_swapped(img, estructura, threshold_factor) ==
    IF estructura = "Hueso" THEN MeanNum(img) * threshold_factor * 10
    ELSE IF estructura = "Tejido blando" THEN MeanNum(img) * (threshold_factor * 12)
    ELSE MeanNum(img) * (threshold_factor * 6)
threshold_num(img, estructura, threshold_factor) ==
    IF estructura = "Hueso" THEN MeanNum(img) * threshold_factor * 10
    ELSE IF estructura = "Tejido blando" THEN MeanNum(img) * (threshold_factor * 6)
    ELSE MeanNum(img) * (threshold_factor * 12)

\* line 112
slice_of(img, index) == IF img.ndim = 3 THEN img.planes[index + 1] ELSE img.planes[1]

\* lines 112-113: slice_img > threshold
segment_ge(img, index, estructura, threshold_factor) ==
    LET s == slice_of(img, index)
    IN  [k \in 1..SliceSize |->
            s[k] * threshold_den(img) >= threshold_num(img, estructura, threshold_factor)]
segment(img, index, estructura, threshold_factor) ==
    LET s == slice_of(img, index)
    IN  [k \in 1..SliceSize |->
            s[k] * threshold_den(img) > threshold_num(img, estructura, threshold_factor)]

\* -------------------------------------- skimage.measure.marching_cubes
\* marching_cubes(vol, level=0) raises ValueError when level lies outside
\* [vol.min(), vol.max()] and RuntimeError when no surface is found; on a
\* volume of 0/1 (or False/True) values it returns a surface exactly when
\* both values occur
uniform(vol) ==
    \A p \in 1..Len(vol) : \A k \in 1..Len(vol[p]) : vol[p][k] = vol[1][1]
marching_cubes_raises(vol) == uniform(vol)

\* ---------------------------------------------- Reconstruccion (124-148)
\* line 128
is_2d_ndim_only(img) == img.ndim < 3
is_2d(img) == img.ndim < 3 \/ Depth(img) = 1

\* line 139: (img > np.mean(img)).astype(np.uint8)
above_mean(img) ==
    [p \in 1..Len(img.planes) |->
        [k \in 1..SliceSize |->
            IF img.planes[p][k] * MeanDen(img) > MeanNum(img) THEN 1 ELSE 0]]

\* ------------------------------------------------ Exportar STL (151-167)
\* line 152
can_export_always(mask) == TRUE
can_export(mask) == mask # NoMask

\* line 154
stacked(mask) == [l \in 1..ExportLayers |-> mask]

\* ------------------------------------------------------------ the runs
Warnings == {"warning: sube un archivo", "warning: imagen 2D",
             "warning: primero segmenta"}

\* lines 51-55, then the first run: the radio's default entry with an empty
\* file_uploader
Init ==
    /\ on_streamlit_cloud \in BOOLEAN
    /\ dicom_data = "None"
    /\ image = NoImage
    /\ segmented = NoMask
    /\ slice_index = 0
    /\ menu = "Subir DICOM"
    /\ message = "none"
    /\ controls = NoControls
    /\ slice_img = NoFigure
    /\ marching = FALSE
    /\ stl = FALSE
    /\ last_seg = NoSeg

\* history: the record of the run that stored the mask lives as long as the mask
KeepSeg == last_seg' = IF segmented' = NoMask THEN NoSeg ELSE last_seg

\* a run that writes nothing to st.session_state
Untouched == UNCHANGED session /\ KeepSeg

\* line 63 with no file chosen
SubirSinArchivo ==
    /\ menu' = "Subir DICOM"
    /\ message' = "none"
    /\ controls' = NoControls
    /\ slice_img' = NoFigure /\ marching' = FALSE /\ stl' = FALSE
    /\ Untouched
    /\ UNCHANGED on_streamlit_cloud

\* lines 64-65 raise on a file pydicom cannot read: nothing is stored
SubirMalformado ==
    /\ menu' = "Subir DICOM"
    /\ message' = "exception"
    /\ controls' = NoControls
    /\ slice_img' = NoFigure /\ marching' = FALSE /\ stl' = FALSE
    /\ Untouched
    /\ UNCHANGED on_streamlit_cloud

\* lines 63-70 with a readable file
Subir(vol) ==
    /\ menu' = "Subir DICOM"
    /\ LET s == upload(vol)
       IN  /\ dicom_data' = s.dicom_data
           /\ image' = s.image
           /\ segmented' = s.segmented
           /\ slice_index' = s.slice_index
    /\ KeepSeg
    /\ message' = "success"
    /\ controls' = NoControls
    /\ slice_img' = NoFigure /\ marching' = FALSE /\ stl' = FALSE
    /\ UNCHANGED on_streamlit_cloud

\* lines 73-95; `pos` is where the user leaves the "Slice:" slider
Visualizar(brightness, contrast, pos) ==
    /\ menu' = "Visualizar imagen"
    /\ marching' = FALSE /\ stl' = FALSE
    /\ UNCHANGED <<on_streamlit_cloud, dicom_data, segmented>>
    /\ KeepSeg
    /\ IF image # NoImage
       THEN LET adjusted == adjusted_of(image, contrast, brightness)
            IN  /\ controls' = [brightness |-> brightness, contrast |-> contrast]
                /\ image' = image_after_adjust(image, contrast, brightness)
                /\ IF has_slices(image)
                   THEN IF slice_index \in 0..(Depth(image) - 1)
                        THEN /\ pos \in 0..(Depth(image) - 1)
                             /\ slice_index' = pos
                             /\ slice_img' = adjusted[pos + 1]
                             /\ message' = "none"
                        \* st.slider rejects a value outside [min, max]
                        ELSE /\ slice_index' = slice_index
                             /\ slice_img' = NoFigure
                             /\ message' = "exception"
                   ELSE /\ slice_index' = slice_index
                        /\ IF image.ndim = 2
                           THEN /\ slice_img' = adjusted[1]
                                /\ message' = "none"
                           \* a (1, H, W) array: imshow takes it only as RGB(A)
                           ELSE /\ slice_img' = adjusted
                                /\ message' \in {"none", "exception"}
       ELSE /\ UNCHANGED <<image, slice_index>>
            /\ controls' = NoControls
            /\ slice_img' = NoFigure
            /\ message' = "warning: sube un archivo"

\* lines 98-121
Segmentar(estructura, threshold_factor) ==
    /\ menu' = "Segmentar imagen"
    /\ controls' = NoControls
    /\ slice_img' = NoFigure /\ marching' = FALSE /\ stl' = FALSE
    /\ UNCHANGED <<on_streamlit_cloud, dicom_data, image, slice_index>>
    /\ IF image # NoImage
       THEN IF image.ndim = 3 => slice_index \in 0..(Depth(image) - 1)
            THEN /\ segmented' = segment(image, slice_index, estructura, threshold_factor)
                 /\ last_seg' = [image |-> image, index |-> slice_index,
                                 estructura |-> estructura, factor |-> threshold_factor]
                 /\ message' = "success"
            \* IndexError at line 112
            ELSE /\ UNCHANGED segmented
                 /\ KeepSeg
                 /\ message' = "exception"
       ELSE /\ UNCHANGED segmented
            /\ KeepSeg
            /\ message' = "warning: sube un archivo"

\* lines 124-148
Reconstruccion ==
    /\ menu' = "Reconstruccion"
    /\ controls' = NoControls
    /\ slice_img' = NoFigure /\ stl' = FALSE
    /\ Untouched
    /\ UNCHANGED on_streamlit_cloud
    /\ IF image = NoImage
       THEN message' = "warning: sube un archivo" /\ marching' = FALSE
       ELSE IF is_2d(image)
       THEN message' = "warning: imagen 2D" /\ marching' = FALSE
       ELSE IF on_streamlit_cloud
       THEN message' = "info: desactivada" /\ marching' = FALSE
       ELSE /\ marching' = TRUE
            /\ message' = IF marching_cubes_raises(above_mean(image))
                          THEN "exception" ELSE "none"

\* lines 151-167
Exportar ==
    /\ menu' = "Exportar STL"
    /\ controls' = NoControls
    /\ slice_img' = NoFigure
    /\ Untouched
    /\ UNCHANGED on_streamlit_cloud
    /\ IF can_export(segmented)
       THEN /\ marching' = TRUE
            /\ IF marching_cubes_raises(stacked(segmented))
               THEN message' = "exception" /\ stl' = FALSE
               ELSE message' = "success" /\ stl' = TRUE
       ELSE /\ marching' = FALSE /\ stl' = FALSE
            /\ message' = "warning: primero segmenta"

Next ==
    \/ SubirSinArchivo
    \/ SubirMalformado
    \/ \E vol \in Volumes : Subir(vol)
    \/ \E b \in Brightnesses, c \in Contrasts, pos \in 0..(MaxDepth - 1) :
          Visualizar(b, c, pos)
    \/ \E e \in Estructuras, f \in Factors : Segmentar(e, f)
    \/ Reconstruccion
    \/ Exportar

Spec == Init /\ [][Next]_vars

\* ================================================================ claims
\* the multipliers as the specification states them, in tenths:
\* 1.0 (Bone), 0.6 (Soft Tissue), 1.2 (Tumor)
StatedMultiplier(estructura) ==
    CASE estructura = "Hueso" -> 10
      [] estructura = "Tejido blando" -> 6
      [] estructura = "Tumor" -> 12

\* the mask of plane `s` against mean = num/den, factor f (hundredths) and
\* structure e: True exactly where value > mean * f * multiplier
StatedMask(s, num, den, e, f) ==
    [k \in 1..Len(s) |-> s[k] * den * 1000 > num * f * StatedMultiplier(e)]

Segmented == menu = "Segmentar imagen" /\ message = "success"

\* C1 as stated: after Segment the stored mask is True exactly where the
\* selected slice exceeds mean(selected slice) x factor x multiplier.
C1_SliceMean ==
    Segmented =>
        LET s == slice_of(image, slice_index)
        IN  segmented = StatedMask(s, SumSeq(s), Len(s),
                                   last_seg.estructura, last_seg.factor)

\* C1 amended: after Segment the stored mask is True exactly where the
\* selected slice exceeds mean(whole loaded volume) x factor x multiplier,
\* multiplier 1.0 for Bone, 0.6 for Soft Tissue, 1.2 for Tumor.
C1_VolumeMean ==
    Segmented =>
        LET s == slice_of(image, slice_index)
        IN  segmented = StatedMask(s, SumPlanes(image.planes),
                                   Len(image.planes) * Len(s),
                                   last_seg.estructura, last_seg.factor)

\* a Segment run on a multi-slice volume whose result differs from the
\* slice-mean mask
C1_Witness ==
    /\ Segmented
    /\ image.ndim = 3 /\ Depth(image) > 1
    /\ last_seg.estructura = "Tumor"
    /\ LET s == slice_of(image, slice_index)
       IN  segmented # StatedMask(s, SumSeq(s), Len(s),
                                  last_seg.estructura, last_seg.factor)

\* C2: whenever a 3-D volume is loaded, 0 <= slice index < depth of the
\* loaded volume.
C2_IndexInRange ==
    (image # NoImage /\ image.ndim = 3) =>
        (0 <= slice_index /\ slice_index < Depth(image))

\* the last plane of a deepest volume is selected, and Segment has used it
C2_Witness ==
    /\ image.ndim = 3 /\ Depth(image) = MaxDepth
    /\ slice_index = MaxDepth - 1
    /\ Segmented

\* C3 as stated: a mask that is present is the segmentation of the slice
\* the current slice index selects.
C3_CurrentSlice ==
    segmented # NoMask =>
        segmented = segment(image, slice_index, last_seg.estructura, last_seg.factor)

\* C3 amended: a mask that is present is the segmentation of the slice of
\* the current volume that was selected when Segment last ran; the slice
\* index may have moved since.
C3_SliceAtSegment ==
    segmented # NoMask =>
        /\ image # NoImage
        /\ image.ndim = 3 => last_seg.index \in 0..(Depth(image) - 1)
        /\ LET s == slice_of(image, last_seg.index)
           IN  segmented = StatedMask(s, SumPlanes(image.planes),
                                      Len(image.planes) * Len(s),
                                      last_seg.estructura, last_seg.factor)

\* Export succeeds on a mask of a slice other than the selected one
C3_Witness ==
    /\ menu = "Exportar STL" /\ stl
    /\ last_seg.index # slice_index
    /\ segmented # segment(image, slice_index, last_seg.estructura, last_seg.factor)

\* C4: Export of a present, uniform mask ends in a normal outcome (a mesh
\* file or a message), not in an unhandled failure.
C4_UniformExportHandled ==
    (menu = "Exportar STL" /\ segmented # NoMask /\ uniform(<<segmented>>)) =>
        message # "exception"

\* C5: Visualize, Segment or Reconstruction with no volume loaded, and
\* Export with no mask present, warn and are skipped: no exception, no mesh
\* file, and volume, mask and slice index stay as they were.
C5_MissingInputSkipped ==
    [][ ( \/ image = NoImage /\ menu' \in {"Visualizar imagen", "Segmentar imagen",
                                           "Reconstruccion"}
          \/ segmented = NoMask /\ menu' = "Exportar STL" )
        => /\ message' \in Warnings
           /\ ~stl' /\ ~marching'
           /\ image' = image /\ segmented' = segmented
           /\ slice_index' = slice_index ]_vars

\* Export was refused for want of a mask although a volume is loaded
C5_Witness ==
    /\ menu = "Exportar STL" /\ message = "warning: primero segmenta"
    /\ image # NoImage /\ segmented = NoMask /\ ~stl

\* C6: Reconstruction on a 2-D volume (fewer than 3 dimensions, or a single
\* slice) warns and is skipped, with no isosurface extraction and the
\* session unchanged; extraction in Reconstruction is reached only for a
\* volume of at least 2 slices.
C6_Needs3D ==
    [][ menu' = "Reconstruccion" =>
        /\ (image # NoImage /\ (image.ndim < 3 \/ Len(image.planes) = 1))
              => /\ message' = "warning: imagen 2D"
                 /\ ~marching'
                 /\ UNCHANGED session
        /\ marching' => (image.ndim = 3 /\ Len(image.planes) >= 2) ]_vars

\* Reconstruction was refused on a 3-D array of one slice
C6_Witness ==
    /\ menu = "Reconstruccion" /\ message = "warning: imagen 2D"
    /\ image.ndim = 3 /\ Depth(image) = 1 /\ ~marching

\* clamp(x, 0, 255) in hundredths, as the specification states it
StatedClamp(x) == IF x < 0 THEN 0 ELSE IF x > 25500 THEN 25500 ELSE x

\* the plane a Visualize run shows, before and after adjustment
ShownSource == IF has_slices(image) THEN image.planes[slice_index + 1]
               ELSE image.planes[1]
ShownGrid == IF image.ndim = 3 /\ ~has_slices(image) THEN slice_img[1] ELSE slice_img
Shown == menu = "Visualizar imagen" /\ image # NoImage /\ slice_img # NoFigure

\* C7: every value of the grid the Display Adjuster produces equals
\* clamp(value x contrast + brightness, 0, 255), so it lies in [0, 255].
C7_AdjustedClamped ==
    Shown =>
        /\ Len(ShownGrid) = Len(ShownSource)
        /\ \A k \in 1..Len(ShownSource) :
              /\ ShownGrid[k] = StatedClamp(ShownSource[k] * controls.contrast
                                            + controls.brightness * 100)
              /\ 0 <= ShownGrid[k] /\ ShownGrid[k] <= 25500

\* one shown pixel was clamped up to 0 and another down to 255
C7_Witness ==
    /\ Shown
    /\ \E k \in 1..Len(ShownSource) :
          ShownSource[k] * controls.contrast + controls.brightness * 100 < 0
    /\ \E k \in 1..Len(ShownSource) :
          ShownSource[k] * controls.contrast + controls.brightness * 100 > 25500

MaskSubset(a, b) == \A k \in 1..Len(a) : a[k] => b[k]

\* C8: for an image of mean > 0 and a factor f > 0 the thresholds Segment
\* computes are ordered Tumor > Bone > Soft Tissue, and on every slice the
\* Tumor mask is within the Bone mask, which is within the Soft Tissue mask.
C8_ThresholdOrder ==
    (image # NoImage /\ MeanNum(image) > 0) =>
        \A f \in Factors \ {0} :
            /\ threshold_num(image, "Tumor", f) > threshold_num(image, "Hueso", f)
            /\ threshold_num(image, "Hueso", f) > threshold_num(image, "Tejido blando", f)
            /\ threshold_den(image) > 0
            /\ \A i \in 0..(Len(image.planes) - 1) :
                  /\ MaskSubset(segment(image, i, "Tumor", f),
                                segment(image, i, "Hueso", f))
                  /\ MaskSubset(segment(image, i, "Hueso", f),
                                segment(image, i, "Tejido blando", f))
            /\ (Segmented /\ last_seg.factor = f /\ last_seg.estructura = "Tumor")
                  => MaskSubset(segmented, segment(image, slice_index, "Hueso", f))
            /\ (Segmented /\ last_seg.factor = f /\ last_seg.estructura = "Hueso")
                  => MaskSubset(segmented, segment(image, slice_index, "Tejido blando", f))

\* Segment ran for Bone on an image of positive mean, and the Soft Tissue
\* mask of the same slice is strictly larger
C8_Witness ==
    /\ Segmented /\ MeanNum(image) > 0
    /\ last_seg.estructura = "Hueso" /\ last_seg.factor > 0
    /\ segmented # segment(image, slice_index, "Tejido blando", last_seg.factor)
    /\ segmented = segment(image, slice_index, "Tumor", last_seg.factor)

\* C9: a successful Upload stores the new volume, clears the mask and resets
\* the slice index to 0; a mask that is present was computed by a Segment run
\* on the volume now loaded, so Export never saves a mask of an earlier volume.
C9_UploadClearsMask ==
    /\ (menu = "Subir DICOM" /\ message = "success")
          => (image # NoImage /\ segmented = NoMask /\ slice_index = 0)
    /\ segmented # NoMask => last_seg.image = image
    /\ stl => (segmented # NoMask /\ last_seg.image = image)

\* a mesh file was saved from a mask of the loaded multi-slice volume
C9_Witness ==
    /\ menu = "Exportar STL" /\ stl /\ message = "success"
    /\ last_seg.image = image /\ image.ndim = 3

\* C10: Visualize, Reconstruction and Export never modify the stored volume
\* or the stored mask, whatever the brightness and contrast, so a following
\* Segment reads the volume as it was before them; of the session state
\* Visualize writes at most the slice index, Reconstruction and Export
\* nothing.
C10_ReadOnlyRuns ==
    [][ menu' \in {"Visualizar imagen", "Reconstruccion", "Exportar STL"} =>
        /\ image' = image /\ segmented' = segmented /\ dicom_data' = dicom_data
        /\ menu' # "Visualizar imagen" => slice_index' = slice_index ]_vars

\* Visualize showed an adjusted plane that differs from the stored one while
\* a mask was present
C10_Witness ==
    /\ Shown /\ segmented # NoMask /\ image.ndim = 2
    /\ \E k \in 1..Len(ShownSource) : ShownGrid[k] # ShownSource[k] * 100

====
